---- MODULE Spec2Model ----
(***************************************************************************)
(* Model of the grapl expression core: the Expr tree (src/src/lib.rs), its *)
(* projections nodes/edges, and the normalizer flatten/dedup/normalize     *)
(* (src/src/normal.rs).  Node names are modelled as integers ordered like  *)
(* the names' text (A=1, B=2, ...).                                        *)
(***************************************************************************)
EXTENDS Integers, Sequences, FiniteSets, TLC

(***************************************************************************)
(* Bounds of the explored inputs.                                          *)
(***************************************************************************)
NumNodes == 3
MaxSize == 4

NumFlatNodes == 4
MaxMembers == 4

NumDistNames == 6
MaxDistMembers == 3

NumMergeNames == 2
MaxMergeMembers == 2
MaxCliqueLen == 2
MaxReorderMembers == 3
NumPairNames == 3
MaxPairSize == 5
MaxOtherSize == 4
NumResNames == 3
MaxStmts == 3
\* a session: names an assignment may target, assignments typed
NumSessionNames == 2
MaxLines == 3

Names == 1..NumNodes
MergeNames == 1..NumMergeNames
PairNames == 1..NumPairNames
ResNames == 1..NumResNames
SessionNames == 1..NumSessionNames
FlatNames == 1..NumFlatNodes

(***************************************************************************)
(* Expr (lib.rs:50-54).  One record shape for the three variants.  Panic   *)
(* is the outcome of a Rust panic: unreachable!() at normal.rs:81 or       *)
(* Vec::remove out of range at normal.rs:159.  A result under construction *)
(* is [panic, v] with panic = 0 while no panic has happened.               *)
(***************************************************************************)
Node(n) == [t |-> "Node", n |-> n, es |-> <<>>]
Connected(es) == [t |-> "Connected", n |-> 0, es |-> es]
Disconnected(es) == [t |-> "Disconnected", n |-> 0, es |-> es]
Unreachable == 1
RemoveOutOfRange == 2
Panic(why) == [t |-> "Panic", n |-> why, es |-> <<>>]
None == [t |-> "None", n |-> 0, es |-> <<>>]

Range(s) == {s[i] : i \in 1..Len(s)}

\* the sequence with the elements f[1], .., f[n], each evaluated once
Vec(f, n) == SubSeq(f, 1, n)

RECURSIVE Concat(_)
Concat(ss) == IF Len(ss) = 0 THEN <<>> ELSE Head(ss) \o Concat(Tail(ss))

(***************************************************************************)
(* Itertools sorted() followed by dedup() on a Vec<Node> (lib.rs:93-94):   *)
(* the elements of s in ascending order, each once (by counting: the       *)
(* names up to the largest one, those that occur in s kept).               *)
(***************************************************************************)
Max(S) == IF S = {} THEN 0 ELSE CHOOSE m \in S : \A y \in S : y <= m

sorted_dedup(s) ==
    LET S == Range(s)
    IN SelectSeq(Vec([i \in 1..Max(S) |-> i], Max(S)), LAMBDA i : i \in S)

(***************************************************************************)
(* Expr::nodes (lib.rs:83-97).                                             *)
(***************************************************************************)
RECURSIVE nodes(_)
nodes(e) ==
    IF e.t = "Node" THEN <<e.n>>
    ELSE sorted_dedup(Concat(Vec([i \in 1..Len(e.es) |-> nodes(e.es[i])], Len(e.es))))

(***************************************************************************)
(* Expr::is_norm_subgraph (normal.rs:175-178).                             *)
(***************************************************************************)
is_norm_subgraph(self, other) ==
    LET set == Range(nodes(other))
        ns == nodes(self)
    IN \A i \in 1..Len(ns) : ns[i] \in set

(***************************************************************************)
(* Expr::dedup (normal.rs:136-173).                                        *)
(***************************************************************************)
RECURSIVE DedupAction(_, _, _)
DedupAction(expr, fresh, action) ==
    IF Len(fresh) = 0 THEN action
    ELSE DedupAction(expr, Tail(fresh),
            IF is_norm_subgraph(expr, Head(fresh)) THEN "Skip"
            ELSE IF is_norm_subgraph(Head(fresh), expr) THEN "Swap"
            ELSE action)

DedupStep_AlwaysInsert(fresh, expr) ==
    IF fresh.panic # 0 THEN fresh
    ELSE [panic |-> 0, v |-> Append(fresh.v, expr)]

\* normal.rs:140-164
DedupStep(fresh, expr) ==
    LET action == DedupAction(expr, fresh.v, "Insert")
    IN IF fresh.panic # 0 THEN fresh
       ELSE IF action = "Insert" THEN [panic |-> 0, v |-> Append(fresh.v, expr)]
       ELSE IF action = "Swap" THEN
            IF Len(fresh.v) = 0 THEN [panic |-> RemoveOutOfRange, v |-> <<>>]
            ELSE [panic |-> 0,
                  v |-> Append(SubSeq(fresh.v, 1, Len(fresh.v) - 1), expr)]
       ELSE fresh

RECURSIVE dedup_exprs(_, _)
dedup_exprs(exprs, fresh) ==
    IF Len(exprs) = 0 THEN fresh
    ELSE dedup_exprs(Tail(exprs), DedupStep(fresh, Head(exprs)))

dedup(e) ==
    IF e.t \in {"Node", "Panic"} THEN e
    ELSE LET r == dedup_exprs(e.es, [panic |-> 0, v |-> <<>>])
         IN IF r.panic # 0 THEN Panic(r.panic)
            ELSE [t |-> e.t, n |-> 0, es |-> r.v]

(***************************************************************************)
(* Expr::flatten (normal.rs:21-133) and Normalize for Expr                 *)
(* (normal.rs:181-185).                                                    *)
(***************************************************************************)
PushAll(dcs, cexprs) == Vec([i \in 1..Len(dcs) |-> dcs[i] \o cexprs], Len(dcs))

Branch(dexpr) == IF dexpr.t = "Node" THEN <<dexpr>> ELSE dexpr.es

Freshs_FirstBranch(dcs, dexprs) ==
    IF Len(dcs) = 0 \/ Len(dexprs) = 0 THEN <<>>
    ELSE Vec([k \in 1..Len(dcs) |-> dcs[k] \o Branch(dexprs[1])], Len(dcs))

Freshs_BranchMajor(dcs, dexprs) ==
    IF Len(dcs) = 0 \/ Len(dexprs) = 0 THEN <<>>
    ELSE Vec([k \in 1..(Len(dcs) * Len(dexprs)) |->
                dcs[((k - 1) % Len(dcs)) + 1]
                    \o Branch(dexprs[((k - 1) \div Len(dcs)) + 1])],
             Len(dcs) * Len(dexprs))

\* normal.rs:63-87
Freshs(dcs, dexprs) ==
    IF Len(dcs) = 0 \/ Len(dexprs) = 0 THEN <<>>
    ELSE Vec([k \in 1..(Len(dcs) * Len(dexprs)) |->
                dcs[((k - 1) \div Len(dexprs)) + 1]
                    \o Branch(dexprs[((k - 1) % Len(dexprs)) + 1])],
             Len(dcs) * Len(dexprs))

\* normal.rs:37-39: dcs is seeded with one empty combination whenever it is
\* empty at the start of an iteration.
Seed(dcs) == IF Len(dcs) = 0 THEN << <<>> >> ELSE dcs

ConnectedResult_KeepSingle(dcs) ==
    IF Len(dcs) = 1 THEN Connected(dcs[1])
    ELSE Disconnected(Vec([i \in 1..Len(dcs) |-> Connected(dcs[i])], Len(dcs)))

\* normal.rs:91-102
ConnectedResult(dcs) ==
    IF Len(dcs) = 1 THEN
        IF Len(dcs[1]) = 1 THEN dcs[1][1] ELSE Connected(dcs[1])
    ELSE Disconnected(Vec([i \in 1..Len(dcs) |-> Connected(dcs[i])], Len(dcs)))

DisconnectedResult_KeepSingle(ds) == Disconnected(ds)

\* normal.rs:124-130
DisconnectedResult(ds) ==
    IF Len(ds) = 1 THEN ds[1] ELSE Disconnected(ds)

RECURSIVE normalize(_), flatten(_), ConnectedLoop(_, _), DisconnectedLoop(_, _)
RECURSIVE ConnectedLoop_Raw(_, _)

\* the loop matching on the member itself instead of expr.normalize()
ConnectedLoop_Raw(exprs, dcs) ==
    IF Len(exprs) = 0 THEN [panic |-> 0, v |-> dcs]
    ELSE LET seeded == Seed(dcs)
             m == Head(exprs)
         IN IF m.t = "Panic" THEN [panic |-> m.n, v |-> <<>>]
            ELSE IF m.t = "Node" THEN
                ConnectedLoop_Raw(Tail(exprs), PushAll(seeded, <<m>>))
            ELSE IF m.t = "Connected" THEN
                ConnectedLoop_Raw(Tail(exprs), PushAll(seeded, m.es))
            ELSE IF \E j \in 1..Len(m.es) : m.es[j].t = "Disconnected" THEN
                [panic |-> Unreachable, v |-> <<>>]
            ELSE ConnectedLoop_Raw(Tail(exprs), Freshs(seeded, m.es))

\* normal.rs:33-89
ConnectedLoop(exprs, dcs) ==
    IF Len(exprs) = 0 THEN [panic |-> 0, v |-> dcs]
    ELSE LET seeded == Seed(dcs)
             m == normalize(Head(exprs))
         IN IF m.t = "Panic" THEN [panic |-> m.n, v |-> <<>>]
            ELSE IF m.t = "Node" THEN
                ConnectedLoop(Tail(exprs), PushAll(seeded, <<m>>))
            ELSE IF m.t = "Connected" THEN
                ConnectedLoop(Tail(exprs), PushAll(seeded, m.es))
            ELSE IF \E j \in 1..Len(m.es) : m.es[j].t = "Disconnected" THEN
                [panic |-> Unreachable, v |-> <<>>]
            ELSE ConnectedLoop(Tail(exprs), Freshs(seeded, m.es))

DisconnectedLoop(exprs, ds) ==
    IF Len(exprs) = 0 THEN [panic |-> 0, v |-> ds]
    ELSE LET m == normalize(Head(exprs))
         IN IF m.t = "Panic" THEN [panic |-> m.n, v |-> <<>>]
            ELSE IF m.t = "Disconnected" THEN
                DisconnectedLoop(Tail(exprs), ds \o m.es)
            ELSE DisconnectedLoop(Tail(exprs), Append(ds, m))

flatten(e) ==
    IF e.t \in {"Node", "Panic"} THEN e
    ELSE IF e.t = "Connected" THEN
        LET r == ConnectedLoop(e.es, <<>>)
        IN IF r.panic # 0 THEN Panic(r.panic) ELSE ConnectedResult(r.v)
    ELSE
        LET r == DisconnectedLoop(e.es, <<>>)
        IN IF r.panic # 0 THEN Panic(r.panic) ELSE DisconnectedResult(r.v)

normalize(e) == flatten(dedup(flatten(e)))

(***************************************************************************)
(* Expr::edges (lib.rs:99-120).  An edge is a pair <<a, b>>; the Vec is    *)
(* sorted lexicographically and adjacent duplicates are removed.           *)
(***************************************************************************)
\* the pairs of the positions instead of the pairs of the elements
cartesian_product_Positions(as, bs) ==
    IF Len(as) = 0 \/ Len(bs) = 0 THEN <<>>
    ELSE Vec([k \in 1..(Len(as) * Len(bs)) |->
                <<((k - 1) \div Len(bs)) + 1, ((k - 1) % Len(bs)) + 1>>],
             Len(as) * Len(bs))

cartesian_product(as, bs) ==
    IF Len(as) = 0 \/ Len(bs) = 0 THEN <<>>
    ELSE Vec([k \in 1..(Len(as) * Len(bs)) |->
                <<as[((k - 1) \div Len(bs)) + 1], bs[((k - 1) % Len(bs)) + 1]>>],
             Len(as) * Len(bs))

\* every pair over the names that occur, whether it is in s or not
sorted_dedup_pairs_Unfiltered(s) ==
    LET ns == sorted_dedup(Vec([i \in 1..(2 * Len(s)) |-> s[((i + 1) \div 2)][2 - (i % 2)]],
                               2 * Len(s)))
    IN cartesian_product(ns, ns)

\* sorted() followed by dedup() on a Vec<(Node, Node)> (lib.rs:109-110, 117):
\* the pairs of s in lexicographic order, each once (by counting: the pairs
\* over the names that occur, in lexicographic order, those in s kept).
sorted_dedup_pairs(s) ==
    LET S == Range(s)
        ns == sorted_dedup(Vec([i \in 1..(2 * Len(s)) |-> s[((i + 1) \div 2)][2 - (i % 2)]],
                               2 * Len(s)))
    IN SelectSeq(cartesian_product(ns, ns), LAMBDA p : p \in S)

\* the value standing for a panic inside edges
PanicEdges == << <<0, 0>> >>

RECURSIVE edges(_)
edges(e) ==
    LET m == normalize(e)
    IN IF m.t = "Panic" THEN PanicEdges
       ELSE IF m.t = "Node" THEN <<>>
       ELSE IF m.t = "Connected" THEN
            sorted_dedup_pairs(SelectSeq(cartesian_product(nodes(m), nodes(m)),
                                         LAMBDA p : p[1] # p[2]))
       ELSE LET parts == Vec([i \in 1..Len(m.es) |-> edges(m.es[i])], Len(m.es))
            IN IF \E i \in 1..Len(parts) : parts[i] = PanicEdges
               THEN PanicEdges
               ELSE sorted_dedup_pairs(Concat(parts))

(***************************************************************************)
(* Expr::contains_node (lib.rs:122-130).                                   *)
(***************************************************************************)
\* only the expression itself is compared, not its members
contains_node_Shallow(e, node) == e.t = "Node" /\ e.n = node

RECURSIVE contains_node(_, _)
contains_node(e, node) ==
    IF e.t = "Node" THEN e.n = node
    ELSE \E i \in 1..Len(e.es) : contains_node(e.es[i], node)

(***************************************************************************)
(* resolve.rs.  A Config is a record of two flags (14-54); the HashMap of  *)
(* an Env (72) is a function from the bound names to their expressions; a  *)
(* Stmt::Assign is a record [node, expr] (lib.rs:179-181).                 *)
(***************************************************************************)
Config(shadowing, recursion) == [shadowing |-> shadowing, recursion |-> recursion]

\* Config::default (resolve.rs:26-34)
DefaultConfig == Config(FALSE, FALSE)

\* Env::new (resolve.rs:76-78)
EmptyEnv == <<>>

Assign(node, e) == [node |-> node, expr |-> e]

\* a lookup that looks a stored Leaf up once more
lookup_Again(map, node) ==
    IF node \in DOMAIN map
    THEN IF map[node].t = "Node" /\ map[node].n \in DOMAIN map
         THEN map[map[node].n]
         ELSE map[node]
    ELSE Node(node)

\* a lookup that finds no binding
lookup_Unbound(map, node) == Node(node)

\* Env::lookup (resolve.rs:81-87)
lookup(map, node) == IF node \in DOMAIN map THEN map[node] ELSE Node(node)

\* only a Leaf is looked up, the members of a group are left as written
resolve_Shallow(e, map) == IF e.t = "Node" THEN lookup(map, e.n) ELSE e

\* Resolve for Expr (resolve.rs:123-143)
RECURSIVE resolve(_, _)
resolve(e, map) ==
    IF e.t = "Node" THEN lookup(map, e.n)
    ELSE [e EXCEPT !.es = Vec([i \in 1..Len(e.es) |-> resolve(e.es[i], map)], Len(e.es))]

\* a bound name keeps its binding
insert_KeepOld(map, cfg, node, e) ==
    IF ~cfg.shadowing /\ node \in DOMAIN map
    THEN [result |-> "Shadowing", map |-> map]
    ELSE IF ~cfg.recursion /\ contains_node(e, node)
    THEN [result |-> "Recursion", map |-> map]
    ELSE [result |-> "Ok",
          map |-> [n \in DOMAIN map \cup {node} |->
                        IF n \in DOMAIN map THEN map[n] ELSE e]]

\* an insert without the test for shadowing
insert_Overwrite(map, cfg, node, e) ==
    IF ~cfg.recursion /\ contains_node(e, node)
    THEN [result |-> "Recursion", map |-> map]
    ELSE [result |-> "Ok",
          map |-> [n \in DOMAIN map \cup {node} |->
                        IF n = node THEN e ELSE map[n]]]

\* an insert that tests for recursion only on a rebinding
insert_RecursionOnRebind(map, cfg, node, e) ==
    IF ~cfg.shadowing /\ node \in DOMAIN map
    THEN [result |-> "Shadowing", map |-> map]
    ELSE IF ~cfg.recursion /\ node \in DOMAIN map /\ contains_node(e, node)
    THEN [result |-> "Recursion", map |-> map]
    ELSE [result |-> "Ok",
          map |-> [n \in DOMAIN map \cup {node} |->
                        IF n = node THEN e ELSE map[n]]]

\* an insert that tests for recursion whatever the configuration says
insert_RecursionAlways(map, cfg, node, e) ==
    IF ~cfg.shadowing /\ node \in DOMAIN map
    THEN [result |-> "Shadowing", map |-> map]
    ELSE IF contains_node(e, node)
    THEN [result |-> "Recursion", map |-> map]
    ELSE [result |-> "Ok",
          map |-> [n \in DOMAIN map \cup {node} |->
                        IF n = node THEN e ELSE map[n]]]

\* the two checks in the other order
insert_RecursionFirst(map, cfg, node, e) ==
    IF ~cfg.recursion /\ contains_node(e, node)
    THEN [result |-> "Recursion", map |-> map]
    ELSE IF ~cfg.shadowing /\ node \in DOMAIN map
    THEN [result |-> "Shadowing", map |-> map]
    ELSE [result |-> "Ok",
          map |-> [n \in DOMAIN map \cup {node} |-> IF n = node THEN e ELSE map[n]]]

\* Env::insert (resolve.rs:94-103): the error, or "Ok" and the new map
insert(map, cfg, node, e) ==
    IF ~cfg.shadowing /\ node \in DOMAIN map
    THEN [result |-> "Shadowing", map |-> map]
    ELSE IF ~cfg.recursion /\ contains_node(e, node)
    THEN [result |-> "Recursion", map |-> map]
    ELSE [result |-> "Ok",
          map |-> [n \in DOMAIN map \cup {node} |-> IF n = node THEN e ELSE map[n]]]

(***************************************************************************)
(* Inputs: every Expr the parser (lib.rs:56-80) can build over Names with  *)
(* at most MaxSize tree nodes (leaves and groups counted alike), and the   *)
(* expressions the unit tests of normal.rs normalize (A=1, B=2, ...).      *)
(***************************************************************************)
RECURSIVE TreesOfSize(_), ForestsOfSize(_)
TreesOfSize(k) ==
    IF k = 1 THEN {Node(n) : n \in Names} \cup {Connected(<<>>), Disconnected(<<>>)}
    ELSE LET fs == ForestsOfSize(k - 1)
         IN {Connected(f) : f \in fs} \cup {Disconnected(f) : f \in fs}

ForestsOfSize(m) ==
    IF m = 0 THEN {<<>>}
    ELSE UNION {{<<tr>> \o f : tr \in TreesOfSize(k), f \in ForestsOfSize(m - k)} :
                    k \in 1..m}

ExprsUpTo(size) == UNION {TreesOfSize(k) : k \in 1..size}

L(n) == Node(n)
C(es) == Connected(es)
D(es) == Disconnected(es)

TestExprs ==
    { L(1), D(<<>>), C(<<>>),                                \* 211-232
      C(<<L(1)>>), C(<<C(<<L(1)>>)>>), D(<<L(1)>>),          \* 283-304
      D(<<D(<<L(1)>>)>>), C(<<D(<<L(1)>>)>>),
      D(<<L(1), D(<<C(<<L(2), L(3)>>)>>), L(4)>>),           \* 305-311
      D(<<L(1), D(<<L(2), L(3)>>), L(4)>>),                  \* 312-315
      C(<<L(1), D(<<L(2)>>)>>), D(<<L(1), C(<<L(2)>>)>>),    \* 320-327
      C(<<L(1), D(<<L(2), L(3)>>)>>),                        \* 329-332
      C(<<C(<<L(1), L(2)>>), D(<<L(3), L(4)>>)>>),           \* 333-339
      C(<<D(<<L(1), L(2)>>), D(<<L(3), L(4)>>)>>),           \* 340-348
      C(<<L(1), C(<<L(2), D(<<L(3), L(4)>>)>>)>>),           \* 349-355
      C(<<L(1), D(<<L(2), L(3)>>), L(4)>>),                  \* 357-360
      D(<<L(1), C(<<L(2), L(3)>>), L(4)>>),                  \* 361-364
      C(<<L(1), D(<<C(<<L(2), L(3)>>), L(4)>>), L(5)>>),     \* 366-372
      C(<<L(1), D(<<C(<<L(2), L(3)>>), L(4)>>), L(5),
          D(<<L(6), L(7)>>)>>),                              \* 374-389
      D(<<L(1), C(<<L(1), L(2)>>), D(<<L(1)>>)>>),           \* 391-394
      C(<<C(<<L(1), L(2)>>), C(<<L(1), L(2), L(3)>>), L(1),
          C(<<L(3), L(4)>>), C(<<L(3), L(4), L(5)>>)>>),     \* 395-400
      D(<<L(3), D(<<L(1), C(<<L(3), D(<<L(2)>>)>>)>>)>>) }   \* 405-408

(***************************************************************************)
(* Every reordering of the direct members of a group.                      *)
(***************************************************************************)
Reorderings(e) ==
    IF e.t = "Node" THEN {e}
    ELSE {[t |-> e.t, n |-> 0, es |-> [i \in 1..Len(e.es) |-> e.es[p[i]]]] :
            p \in Permutations(1..Len(e.es))}

(***************************************************************************)
(* State: one run of the property test tests/random.rs:54-63 followed by   *)
(* rendering the normal form (lib.rs:154-169, which normalizes again).     *)
(***************************************************************************)
VARIABLES expr, other, pc, normalized, renormalized, otherNormalized,
          exprNodes, normNodes, exprEdges, normEdges

\* the result of one call of Expr::dedup on expr, as the tests dedup_expr
\* and disconnected_dups make it (normal.rs:234-281, 403-413)
VARIABLES deduped

(***************************************************************************)
(* State of a resolution (resolve.rs:145-178): the Config and the map of   *)
(* the Env, the statements and the trailing expression handed over so far, *)
(* the statements resolved so far (fresh of Vec<Stmt>::resolve), the error *)
(* returned, and the value returned for the trailing expression.           *)
(***************************************************************************)
VARIABLES config, env, stmts, ret, fresh, error, value, rpc

normVars == <<expr, other, pc, normalized, renormalized, otherNormalized,
              exprNodes, normNodes, exprEdges, normEdges, deduped>>

resVars == <<config, env, stmts, ret, fresh, error, value, rpc>>

vars == <<expr, other, pc, normalized, renormalized, otherNormalized,
          exprNodes, normNodes, exprEdges, normEdges, deduped,
          config, env, stmts, ret, fresh, error, value, rpc>>

\* no program is being resolved
Unresolved ==
    /\ config = DefaultConfig
    /\ env = EmptyEnv
    /\ stmts = <<>>
    /\ ret = None
    /\ fresh = <<>>
    /\ error = "None"
    /\ value = None
    /\ rpc = "idle"

Blank ==
    /\ pc = "parsed"
    /\ normalized = None
    /\ renormalized = None
    /\ otherNormalized = None
    /\ exprNodes = <<>>
    /\ normNodes = <<>>
    /\ exprEdges = <<>>
    /\ normEdges = <<>>
    /\ deduped = None

Init ==
    /\ expr \in ExprsUpTo(MaxSize) \cup TestExprs
    /\ other = expr
    /\ Blank
    /\ Unresolved

Normalize ==
    /\ pc = "parsed"
    /\ normalized' = normalize(expr)
    /\ pc' = "normalized"
    /\ UNCHANGED <<expr, other, renormalized, otherNormalized,
                   exprNodes, normNodes, exprEdges, normEdges, deduped>>
    /\ UNCHANGED resVars

NodesAndEdges ==
    /\ pc = "normalized"
    /\ normalized.t # "Panic"
    /\ exprNodes' = nodes(expr)
    /\ normNodes' = nodes(normalized)
    /\ exprEdges' = edges(expr)
    /\ normEdges' = edges(normalized)
    /\ pc' = "projected"
    /\ UNCHANGED <<expr, other, normalized, renormalized, otherNormalized,
                   deduped>>
    /\ UNCHANGED resVars

Display ==
    /\ pc = "projected"
    /\ renormalized' = normalize(normalized)
    /\ pc' = "displayed"
    /\ UNCHANGED <<expr, other, normalized, otherNormalized,
                   exprNodes, normNodes, exprEdges, normEdges, deduped>>
    /\ UNCHANGED resVars

NormalizeOther ==
    /\ pc = "displayed"
    /\ otherNormalized' = normalize(other)
    /\ pc' = "done"
    /\ UNCHANGED <<expr, other, normalized, renormalized,
                   exprNodes, normNodes, exprEdges, normEdges, deduped>>
    /\ UNCHANGED resVars

Next == Normalize \/ NodesAndEdges \/ Display \/ NormalizeOther

Spec == Init /\ [][Next]_vars

(***************************************************************************)
(* Flat groups: a Connected or Disconnected of at most MaxMembers members, *)
(* each a Leaf or a Connected of two different Leaves, over FlatNames.     *)
(* This is the shape of the dedup tests (normal.rs:234-281, 403-413).      *)
(***************************************************************************)
FlatMembers ==
    {Node(n) : n \in FlatNames}
        \cup {Connected(<<Node(p[1]), Node(p[2])>>) :
                    p \in {q \in FlatNames \X FlatNames : q[1] < q[2]}}

InitFlat ==
    /\ \E k \in 0..MaxMembers :
          \E f \in [1..k -> FlatMembers] :
             expr \in {Connected(f), Disconnected(f)}
    /\ other = expr
    /\ Blank
    /\ Unresolved

SpecFlat == InitFlat /\ [][Next]_vars

(***************************************************************************)
(* One call of Expr::dedup (normal.rs:136-173) on a Disconnected of flat   *)
(* members, or on one of the groups of the tests disconnected_dups         *)
(* (normal.rs:403-413) and dedup_expr (normal.rs:234-281); N, I, J and     *)
(* A .. E are the names 1, 2, 3 and 1 .. 5.                                *)
(***************************************************************************)
DedupTests ==
    { Disconnected(<<Node(1), Node(2), Connected(<<Node(1), Node(3)>>)>>),
      Disconnected(<<Connected(<<Node(1), Node(2)>>),
                     Connected(<<Node(1), Node(2), Node(3)>>),
                     Node(1),
                     Connected(<<Node(3), Node(4)>>),
                     Connected(<<Node(3), Node(4), Node(5)>>)>>) }

InitDedup ==
    /\ expr \in {Disconnected(f) :
                    f \in UNION {[1..k -> FlatMembers] : k \in 0..MaxMembers}}
                        \cup DedupTests
    /\ other = expr
    /\ Blank
    /\ Unresolved

Dedup ==
    /\ pc = "parsed"
    /\ deduped' = dedup(expr)
    /\ pc' = "deduped"
    /\ UNCHANGED <<expr, other, normalized, renormalized, otherNormalized,
                   exprNodes, normNodes, exprEdges, normEdges>>
    /\ UNCHANGED resVars

NextDedup == Dedup

SpecDedup == InitDedup /\ [][NextDedup]_vars

(***************************************************************************)
(* Distribution inputs (normal.rs:24-103, tests 318-389): a Connected of   *)
(* at most MaxDistMembers members, each a Leaf, a Connected of up to two   *)
(* Leaves, or a Disconnected of up to two components that are Leaves or    *)
(* Connected groups of two Leaves.  The Leaves are named from left         *)
(* to right 1, 2, .. NumDistNames, 1, 2, ..: a shape with at most          *)
(* NumDistNames Leaves mentions no name twice.                             *)
(***************************************************************************)
CliqueShapes(lens) == {Connected([i \in 1..k |-> Node(0)]) : k \in lens}

ComponentShapes == {Node(0)} \cup CliqueShapes({2})

DistMemberShapes ==
    {Node(0)} \cup CliqueShapes(0..2)
        \cup {Disconnected(f) : f \in UNION {[1..k -> ComponentShapes] : k \in 0..2}}

RECURSIVE LeafCount(_)
LeafCount(e) ==
    IF e.t = "Node" THEN 1
    ELSE IF Len(e.es) = 0 THEN 0
    ELSE LeafCount(e.es[1]) + LeafCount([e EXCEPT !.es = Tail(e.es)])

\* names the Leaves of e from left to right, `before` Leaves precede e
RECURSIVE Relabel(_, _)
Relabel(e, before) ==
    IF e.t = "Node" THEN Node((before % NumDistNames) + 1)
    ELSE [e EXCEPT !.es =
            Vec([i \in 1..Len(e.es) |->
                    Relabel(e.es[i],
                            before + LeafCount([e EXCEPT !.es = SubSeq(e.es, 1, i - 1)]))],
                Len(e.es))]

InitDistribute ==
    /\ \E k \in 0..MaxDistMembers :
          \E f \in [1..k -> DistMemberShapes] :
             expr = Relabel(Connected(f), 0)
    /\ other = expr
    /\ Blank
    /\ Unresolved

SpecDistribute == InitDistribute /\ [][Next]_vars

(***************************************************************************)
(* Merge inputs (normal.rs:45-59, test 395-400): a Connected of at most    *)
(* MaxMergeMembers members, each a Leaf or a Connected of one to           *)
(* MaxCliqueLen Leaves (any order, repetitions allowed) over MergeNames,   *)
(* and the expression of the test itself.                                  *)
(***************************************************************************)
MergeMembers ==
    {Node(n) : n \in MergeNames}
        \cup UNION {{Connected(f) : f \in [1..k -> {Node(n) : n \in MergeNames}]} :
                        k \in 1..MaxCliqueLen}

MergeTest ==
    C(<<C(<<L(1), L(2)>>), C(<<L(1), L(2), L(3)>>), L(1),
        C(<<L(3), L(4)>>), C(<<L(3), L(4), L(5)>>)>>)

InitMerge ==
    /\ \/ \E k \in 0..MaxMergeMembers :
             \E f \in [1..k -> MergeMembers] : expr = Connected(f)
       \/ expr = MergeTest
    /\ other = expr
    /\ Blank
    /\ Unresolved

SpecMerge == InitMerge /\ [][Next]_vars

(***************************************************************************)
(* Reordered groups (normal.rs:33-40, 146-163): a flat group of at most    *)
(* MaxReorderMembers members, each a Leaf, a Connected of two different    *)
(* Leaves or the empty Disconnected, and the same group with its direct    *)
(* members in another order.                                               *)
(***************************************************************************)
ReorderMembers == FlatMembers \cup {Disconnected(<<>>)}

InitReorder ==
    /\ \E k \in 0..MaxReorderMembers :
          \E f \in [1..k -> ReorderMembers] :
             expr \in {Connected(f), Disconnected(f)}
    /\ other \in Reorderings(expr)
    /\ Blank
    /\ Unresolved

SpecReorder == InitReorder /\ [][Next]_vars

(***************************************************************************)
(* Pairs of expressions (lib.rs:50-80).  A shape is an expression without  *)
(* empty groups whose Leaves are not named yet; ReadOnceExprs(size) holds  *)
(* every shape of at most size tree nodes with NumPairNames Leaves, named  *)
(* in every order by the names PairNames, each name once.  PairTests are   *)
(* expressions that repeat a name or hold an empty group, and {[B, A], C}. *)
(* The first                                                               *)
(* expression has at most MaxPairSize tree nodes, the second at most       *)
(* MaxOtherSize.                                                           *)
(***************************************************************************)
RECURSIVE ShapesOfSize(_), ShapeForestsOfSize(_)
ShapesOfSize(k) ==
    IF k = 1 THEN {Node(0)}
    ELSE LET fs == ShapeForestsOfSize(k - 1)
         IN {Connected(f) : f \in fs} \cup {Disconnected(f) : f \in fs}

ShapeForestsOfSize(m) ==
    IF m = 0 THEN {<<>>}
    ELSE UNION {{<<tr>> \o f : tr \in ShapesOfSize(k), f \in ShapeForestsOfSize(m - k)} :
                    k \in 1..m}

PairShapes(size) ==
    {sh \in UNION {ShapesOfSize(k) : k \in 1..size} :
        LeafCount(sh) = NumPairNames}

\* names the Leaves of e from left to right f[before + 1], f[before + 2], ..
RECURSIVE Label(_, _, _)
Label(e, f, before) ==
    IF e.t = "Node" THEN Node(f[before + 1])
    ELSE [e EXCEPT !.es =
            Vec([i \in 1..Len(e.es) |->
                    Label(e.es[i], f,
                          before + LeafCount([e EXCEPT !.es = SubSeq(e.es, 1, i - 1)]))],
                Len(e.es))]

PairTests ==
    { D(<<C(<<L(1), L(2)>>), C(<<L(2), L(3)>>), C(<<L(1), L(3)>>)>>),
      D(<<C(<<L(1), L(2)>>), C(<<L(1), L(3)>>)>>),
      D(<<L(1), L(2), C(<<L(1), L(3)>>)>>),
      D(<<L(2), C(<<L(1), L(3)>>)>>),
      C(<<L(1), C(<<>>)>>),
      C(<<D(<<>>), L(1)>>),
      C(<<D(<<L(2), L(1)>>), L(3)>>) }

ReadOnceExprs(size) ==
    {Label(sh, f, 0) : sh \in PairShapes(size), f \in Permutations(PairNames)}

InitPair ==
    /\ expr \in ReadOnceExprs(MaxPairSize) \cup PairTests
    /\ other \in ReadOnceExprs(MaxOtherSize) \cup PairTests
    /\ Blank
    /\ Unresolved

SpecPair == InitPair /\ [][Next]_vars

(***************************************************************************)
(* Programs (lib.rs:179-223, resolve.rs:145-178).  The statements of a     *)
(* program are handed over one by one, at most MaxStmts of them; each      *)
(* assigns to a name of ResNames a Leaf over ResNames, or is a statement   *)
(* of the tests and examples (resolve.rs:201-320, lib.rs:174-177, with     *)
(* G1 = 1, G2 = 2, A = G = 3, B = 4, X = 5).  The trailing expression is a *)
(* Leaf, the Connected of all names, or {X, G1}.                           *)
(***************************************************************************)
RhsChoices == {Node(n) : n \in ResNames}

TestStmts ==
    { Assign(1, D(<<L(3), L(4)>>)),          \* 209
      Assign(2, C(<<L(5), L(1)>>)),          \* 210
      Assign(1, L(4)),                       \* 254
      Assign(1, C(<<L(1), L(5)>>)),          \* 306
      Assign(3, C(<<L(1), L(2)>>)) }         \* lib.rs:177

StmtChoices == {Assign(n, e) : n \in ResNames, e \in RhsChoices} \cup TestStmts

RetChoices ==
    {Node(n) : n \in ResNames}
        \cup {Connected([n \in ResNames |-> Node(n)]), C(<<L(5), L(1)>>)}

InitResolve ==
    /\ expr = None
    /\ other = None
    /\ Blank
    /\ config \in {Config(s, r) : s \in BOOLEAN, r \in BOOLEAN}
    /\ env = EmptyEnv
    /\ stmts = <<>>
    /\ ret = None
    /\ fresh = <<>>
    /\ error = "None"
    /\ value = None
    /\ rpc = "stmts"

\* a resolution that drops a failing statement and goes on with the next
ResolveStmt_KeepGoing ==
    /\ rpc = "stmts"
    /\ Len(stmts) < MaxStmts
    /\ \E s \in StmtChoices :
          LET resolved == resolve(s.expr, env)
              r == insert(env, config, s.node, resolved)
          IN /\ stmts' = Append(stmts, s)
             /\ IF r.result = "Ok"
                THEN /\ env' = r.map
                     /\ fresh' = Append(fresh, Assign(s.node, resolved))
                     /\ UNCHANGED <<error, rpc>>
                ELSE /\ error' = r.result
                     /\ UNCHANGED <<env, fresh, rpc>>
    /\ UNCHANGED <<config, ret, value>>
    /\ UNCHANGED normVars

\* one iteration of Vec<Stmt>::resolve (resolve.rs:164-166), that is
\* Stmt::resolve (148-156) with Env::insert (94-103); an error ends the
\* resolution of the program (the ? of 165 and 175)
ResolveStmt ==
    /\ rpc = "stmts"
    /\ Len(stmts) < MaxStmts
    /\ \E s \in StmtChoices :
          LET resolved == resolve(s.expr, env)
              r == insert(env, config, s.node, resolved)
          IN /\ stmts' = Append(stmts, s)
             /\ IF r.result = "Ok"
                THEN /\ env' = r.map
                     /\ fresh' = Append(fresh, Assign(s.node, resolved))
                     /\ UNCHANGED <<error, rpc>>
                ELSE /\ error' = r.result
                     /\ rpc' = "failed"
                     /\ UNCHANGED <<env, fresh>>
    /\ UNCHANGED <<config, ret, value>>
    /\ UNCHANGED normVars

\* the trailing expression of Ret::resolve (resolve.rs:176)
ResolveRet ==
    /\ rpc = "stmts"
    /\ \E e \in RetChoices :
          /\ ret' = e
          /\ value' = resolve(e, env)
    /\ rpc' = "returned"
    /\ UNCHANGED <<config, env, stmts, fresh, error>>
    /\ UNCHANGED normVars

NextResolve == ResolveStmt \/ ResolveRet

SpecResolve == InitResolve /\ [][NextResolve]_vars

(***************************************************************************)
(* A session of the read-eval-print loop (main.rs:22-53, 93-128): one      *)
(* Config and one Env for the whole session; every line typed is an        *)
(* assignment or an expression, and an error is printed and ends the line  *)
(* only.  stmts holds the assignments typed, fresh those that succeeded,   *)
(* error the outcome of the last line, ret and value the last expression   *)
(* typed and what it resolved to.  The library allows all four             *)
(* configurations; main.rs:26 uses with_shadowing.                         *)
(***************************************************************************)
SessionStmts ==
    {Assign(n, Node(m)) : n, m \in SessionNames}
        \cup { Assign(1, C(<<L(1), L(5)>>)),
               Assign(2, D(<<L(1), L(4)>>)),
               Assign(1, L(4)) }

SessionExprs ==
    {Node(n) : n \in SessionNames}
        \cup {C(<<L(5), L(1)>>), D(<<L(2), C(<<L(1), L(5)>>)>>)}

InitSession ==
    /\ expr = None
    /\ other = None
    /\ Blank
    /\ config \in {Config(s, r) : s, r \in BOOLEAN}
    /\ env = EmptyEnv
    /\ stmts = <<>>
    /\ ret = None
    /\ fresh = <<>>
    /\ error = "None"
    /\ value = None
    /\ rpc = "session"

\* an expression line that stores what a Leaf resolved to
LineExpr_Caching ==
    /\ rpc = "session"
    /\ \E e \in SessionExprs :
          /\ ret' = e
          /\ value' = resolve(e, env)
          /\ error' = "None"
          /\ env' = IF e.t = "Node"
                    THEN [n \in DOMAIN env \cup {e.n} |->
                              IF n = e.n THEN resolve(e, env) ELSE env[n]]
                    ELSE env
    /\ UNCHANGED <<config, stmts, fresh, rpc>>
    /\ UNCHANGED normVars

\* Input::Stmt (main.rs:102-106): Stmt::resolve (resolve.rs:148-156)
LineStmt ==
    /\ rpc = "session"
    /\ Len(stmts) < MaxLines
    /\ \E s \in SessionStmts :
          LET resolved == resolve(s.expr, env)
              r == insert(env, config, s.node, resolved)
          IN /\ stmts' = Append(stmts, s)
             /\ IF r.result = "Ok"
                THEN /\ env' = r.map
                     /\ fresh' = Append(fresh, Assign(s.node, resolved))
                     /\ error' = "None"
                ELSE /\ error' = r.result
                     /\ UNCHANGED <<env, fresh>>
    /\ UNCHANGED <<config, ret, value, rpc>>
    /\ UNCHANGED normVars

\* Input::Expr (main.rs:98-101): Expr::resolve (resolve.rs:123-143)
LineExpr ==
    /\ rpc = "session"
    /\ \E e \in SessionExprs :
          /\ ret' = e
          /\ value' = resolve(e, env)
          /\ error' = "None"
    /\ UNCHANGED <<config, env, stmts, fresh, rpc>>
    /\ UNCHANGED normVars

NextSession == LineStmt \/ LineExpr

SpecSession == InitSession /\ [][NextSession]_vars

TypeOK ==
    /\ pc \in {"parsed", "deduped", "normalized", "projected", "displayed", "done"}
    /\ rpc \in {"idle", "stmts", "failed", "returned", "session"}
    /\ error \in {"None", "Shadowing", "Recursion"}
    /\ Len(fresh) <= Len(stmts)
    /\ Len(stmts) <= Max({MaxStmts, MaxLines})

(***************************************************************************)
(* Vocabulary of the properties.                                           *)
(***************************************************************************)
NodeSet(e) == Range(nodes(e))

Normalized == pc # "parsed"
Projected == pc \in {"projected", "displayed", "done"}
Displayed == pc \in {"displayed", "done"}

\* the node sets of the components of a normal form
Components(e) ==
    IF e.t = "Disconnected" THEN {NodeSet(e.es[i]) : i \in 1..Len(e.es)}
    ELSE {NodeSet(e)}

RECURSIVE WellFlattened(_)
WellFlattened(e) ==
    \/ e.t = "Node"
    \/ /\ e.t \in {"Connected", "Disconnected"}
       /\ Len(e.es) # 1
       /\ \A i \in 1..Len(e.es) : e.es[i].t # e.t /\ WellFlattened(e.es[i])

\* a Leaf wrapped in k >= 0 single-member groups: the Leaf's name, else 0
RECURSIVE SoleLeaf(_)
SoleLeaf(e) ==
    IF e.t = "Node" THEN e.n
    ELSE IF Len(e.es) = 1 THEN SoleLeaf(e.es[1])
    ELSE 0

RECURSIVE Depth(_)
Depth(e) ==
    IF e.t = "Node" \/ Len(e.es) = 0 THEN 0
    ELSE 1 + CHOOSE d \in {Depth(e.es[i]) : i \in 1..Len(e.es)} :
                \A i \in 1..Len(e.es) : Depth(e.es[i]) <= d

(***************************************************************************)
(* C1: normalize is idempotent: normalizing the normal form of any        *)
(* expression gives the same tree again.                                   *)
(***************************************************************************)
C1_Idempotent == Displayed => renormalized = normalized

(***************************************************************************)
(* C2: normalization preserves the node set: nodes(e) equals               *)
(* nodes(normalize(e)) for every expression e.                             *)
(***************************************************************************)
C2_NodesPreserved == Projected => exprNodes = normNodes

(***************************************************************************)
(* C3: normalization preserves the edge set: edges(e) equals               *)
(* edges(normalize(e)) for every expression e.                             *)
(***************************************************************************)
C3_EdgesPreserved == Projected => exprEdges = normEdges

(***************************************************************************)
(* C4: the normal form is irredundant: when normalize(e) is a              *)
(* Disconnected, no direct member's node set is contained in the node set  *)
(* of a different direct member.                                           *)
(***************************************************************************)
C4_Irredundant ==
    (Normalized /\ normalized.t = "Disconnected") =>
        \A i, j \in 1..Len(normalized.es) :
            i # j => ~(NodeSet(normalized.es[i]) \subseteq NodeSet(normalized.es[j]))

(***************************************************************************)
(* C5: the normal form is flattened: no Disconnected directly inside a     *)
(* Disconnected, no Connected directly inside a Connected, no group with   *)
(* exactly one member; and flatten never reaches unreachable!().           *)
(***************************************************************************)
C5_Flattened ==
    Normalized => /\ normalized # Panic(Unreachable)
                  /\ normalized.t # "Panic" => WellFlattened(normalized)

\* a Connected one of whose members normalizes to a Disconnected has been
\* normalized, so the match at normal.rs:68-82 has run
C5_Witness ==
    /\ Normalized
    /\ expr.t = "Connected"
    /\ \E i \in 1..Len(expr.es) :
          /\ expr.es[i].t = "Connected"
          /\ normalize(expr.es[i]).t = "Disconnected"
    /\ normalized.t = "Disconnected"
    /\ Len(normalized.es) >= 2
    /\ WellFlattened(normalized)

(***************************************************************************)
(* C6: collapse laws: a Leaf wrapped in any nesting of single-member       *)
(* groups normalizes to that Leaf, and both empty groups normalize to the  *)
(* empty Disconnected.                                                     *)
(***************************************************************************)
C6_Collapse ==
    Normalized =>
        /\ SoleLeaf(expr) # 0 => normalized = Node(SoleLeaf(expr))
        /\ expr \in {Connected(<<>>), Disconnected(<<>>)} =>
                normalized = Disconnected(<<>>)

C6_Witness ==
    /\ Normalized
    /\ expr.t = "Connected"
    /\ SoleLeaf(expr) # 0
    /\ Depth(expr) = 3
    /\ expr.es[1].t = "Disconnected"
    /\ normalized.t = "Node"

(***************************************************************************)
(* Vocabulary of the distribution law.                                     *)
(***************************************************************************)
IsLeaf(e) == e.t = "Node"
IsClique(e) == e.t = "Connected" /\ \A i \in 1..Len(e.es) : IsLeaf(e.es[i])
IsUnionOfCliques(e) ==
    e.t = "Disconnected" /\ \A i \in 1..Len(e.es) : IsLeaf(e.es[i]) \/ IsClique(e.es[i])

IsDistInput(e) ==
    e.t = "Connected"
        /\ \A i \in 1..Len(e.es) :
              IsLeaf(e.es[i]) \/ IsClique(e.es[i]) \/ IsUnionOfCliques(e.es[i])

\* no node name occurs twice: all node sets met in e are pairwise disjoint
ReadOnce(e) == LeafCount(e) = Cardinality(NodeSet(e))

RECURSIVE NoEmptyGroup(_)
NoEmptyGroup(e) ==
    IsLeaf(e) \/ (Len(e.es) > 0 /\ \A i \in 1..Len(e.es) : NoEmptyGroup(e.es[i]))

\* the branches of a member: a Leaf or a Connected is one branch, a
\* Disconnected is one branch per component
BranchesOf(m) ==
    IF IsLeaf(m) THEN << <<m>> >>
    ELSE IF m.t = "Connected" THEN <<m.es>>
    ELSE [i \in 1..Len(m.es) |-> IF IsLeaf(m.es[i]) THEN <<m.es[i]>> ELSE m.es[i].es]

\* the cross product of the members' branches, the accumulated
\* combinations in the outer loop and the member's branches in the inner
RECURSIVE CrossProduct(_, _)
CrossProduct(members, combos) ==
    IF Len(members) = 0 THEN combos
    ELSE LET bs == BranchesOf(Head(members))
             n == Len(bs)
         IN CrossProduct(Tail(members),
                IF n = 0 \/ Len(combos) = 0 THEN <<>>
                ELSE [k \in 1..(Len(combos) * n) |->
                        combos[((k - 1) \div n) + 1] \o bs[((k - 1) % n) + 1]])

Combinations(e) == CrossProduct(e.es, << <<>> >>)

Component(combo) == IF Len(combo) = 1 THEN combo[1] ELSE Connected(combo)

(***************************************************************************)
(* C7 as stated: for a Connected of Leaves, Connected groups of Leaves and *)
(* Disconnected groups of such, with pairwise disjoint node sets,          *)
(* normalize yields a Disconnected holding one Connected per combination   *)
(* of the cross product of the members' branches, in cross-product order.  *)
(***************************************************************************)
C7_DistributionAsStated ==
    (Normalized /\ IsDistInput(expr) /\ ReadOnce(expr)) =>
        normalized =
            Disconnected([i \in 1..Len(Combinations(expr)) |->
                            Connected(Combinations(expr)[i])])

(***************************************************************************)
(* C7 amended: when moreover no group is empty, normalize yields the       *)
(* combinations of the cross product in cross-product order, a combination *)
(* of one node as its Leaf and any other as a Connected; two or more       *)
(* combinations are collected in a Disconnected, a single combination is   *)
(* the result itself.                                                      *)
(***************************************************************************)
C7_Distribution ==
    (Normalized /\ IsDistInput(expr) /\ ReadOnce(expr) /\ NoEmptyGroup(expr)) =>
        LET combos == Combinations(expr)
        IN normalized =
            IF Len(combos) = 1 THEN Component(combos[1])
            ELSE Disconnected([i \in 1..Len(combos) |-> Component(combos[i])])

\* {[A, B], [C, D]} style: two Disconnected members of two components
C7_Witness ==
    /\ Normalized
    /\ IsDistInput(expr) /\ ReadOnce(expr) /\ NoEmptyGroup(expr)
    /\ Cardinality({i \in 1..Len(expr.es) :
            expr.es[i].t = "Disconnected" /\ Len(expr.es[i].es) = 2}) >= 2
    /\ normalized.t = "Disconnected"
    /\ Len(normalized.es) >= 4

(***************************************************************************)
(* C8: a Connected whose members are Leaves or non-empty Connected groups  *)
(* of Leaves normalizes to the single clique over the distinct nodes that  *)
(* occur, each node once, or to the Leaf when only one node occurs.        *)
(***************************************************************************)
IsMergeInput(e) ==
    /\ e.t = "Connected"
    /\ Len(e.es) > 0
    /\ \A i \in 1..Len(e.es) :
          IsLeaf(e.es[i]) \/ (IsClique(e.es[i]) /\ Len(e.es[i].es) > 0)

C8_Merge ==
    (Normalized /\ IsMergeInput(expr)) =>
        IF Cardinality(NodeSet(expr)) = 1
        THEN normalized = Node(CHOOSE n \in NodeSet(expr) : TRUE)
        ELSE /\ IsClique(normalized)
             /\ {normalized.es[i].n : i \in 1..Len(normalized.es)} = NodeSet(expr)
             /\ Len(normalized.es) = Cardinality(NodeSet(expr))

\* a member is strictly contained in another one and both are merged
C8_Witness ==
    /\ Normalized
    /\ IsMergeInput(expr)
    /\ \E i, j \in 1..Len(expr.es) :
          /\ NodeSet(expr.es[i]) \subseteq NodeSet(expr.es[j])
          /\ NodeSet(expr.es[i]) # NodeSet(expr.es[j])
    /\ IsClique(normalized)
    /\ Len(normalized.es) >= 3

(***************************************************************************)
(* C9: a group and the same group with its direct members in another order *)
(* have normal forms with the same set of component node sets.             *)
(***************************************************************************)
C9_OrderInsignificant ==
    (pc = "done" /\ other \in Reorderings(expr)) =>
        Components(normalized) = Components(otherNormalized)

(***************************************************************************)
(* C10 as stated: two expressions with the same nodes and the same edges   *)
(* have normal forms with the same set of component node sets.             *)
(***************************************************************************)
SameGraph ==
    /\ pc = "done"
    /\ exprNodes = nodes(other)
    /\ exprEdges = edges(other)

C10_CanonicalAsStated ==
    SameGraph => Components(normalized) = Components(otherNormalized)

(***************************************************************************)
(* C10 amended: two expressions in which no node name occurs twice and no  *)
(* group is empty, with the same nodes and the same edges, have normal     *)
(* forms with the same set of component node sets.                         *)
(***************************************************************************)
C10_Canonical ==
    (SameGraph /\ ReadOnce(expr) /\ NoEmptyGroup(expr)
               /\ ReadOnce(other) /\ NoEmptyGroup(other)) =>
        Components(normalized) = Components(otherNormalized)

\* two differently nested expressions of one graph with an edge and a
\* missing edge
C10_Witness ==
    /\ SameGraph
    /\ ReadOnce(expr) /\ NoEmptyGroup(expr)
    /\ ReadOnce(other) /\ NoEmptyGroup(other)
    /\ other \notin Reorderings(expr)
    /\ Len(exprNodes) >= 3
    /\ Len(exprEdges) \in {2, 4}
    /\ normalized.t = "Disconnected"
    /\ Components(normalized) = Components(otherNormalized)

(***************************************************************************)
(* C11: normalize, nodes and edges return a value for every expression:    *)
(* no call reaches unreachable!() in flatten, and the Swap of dedup never  *)
(* removes from an empty list.                                             *)
(***************************************************************************)
C11_Total ==
    /\ Normalized => normalized.t # "Panic"
    /\ Projected => (exprEdges # PanicEdges /\ normEdges # PanicEdges)
    /\ Displayed => renormalized.t # "Panic"
    /\ pc = "done" => otherNormalized.t # "Panic"

\* dedup met a member contained in a later one (Swap), inside an
\* expression that holds a Disconnected within a Connected
C11_Witness ==
    /\ Projected
    /\ normalized.t # "Panic"
    /\ exprEdges # PanicEdges
    /\ LET f == flatten(expr)
       IN /\ f.t = "Disconnected"
          /\ \E i, j \in 1..Len(f.es) :
                /\ i < j
                /\ is_norm_subgraph(f.es[i], f.es[j])
                /\ ~is_norm_subgraph(f.es[j], f.es[i])
    /\ \E i \in 1..Len(expr.es) : expr.es[i].t # "Node"

(***************************************************************************)
(* C12: edges(e) holds exactly the ordered pairs of two different nodes    *)
(* that belong to one component of normalize(e); it is symmetric, without  *)
(* self-loops, empty for a Leaf, and the list is strictly increasing in    *)
(* the lexicographic order (sorted, no duplicates).                        *)
(***************************************************************************)
PairLess(p, q) == p[1] < q[1] \/ (p[1] = q[1] /\ p[2] < q[2])

C12_Edges ==
    Projected =>
        LET E == Range(exprEdges)
        IN /\ E = {p \in NodeSet(normalized) \X NodeSet(normalized) :
                        /\ p[1] # p[2]
                        /\ \E c \in Components(normalized) : p[1] \in c /\ p[2] \in c}
           /\ \A p \in E : p[1] # p[2] /\ <<p[2], p[1]>> \in E
           /\ expr.t = "Node" => exprEdges = <<>>
           /\ \A i \in 1..(Len(exprEdges) - 1) : PairLess(exprEdges[i], exprEdges[i + 1])

\* two components that share a node, and two nodes that share no component
C12_Witness ==
    /\ Projected
    /\ normalized.t = "Disconnected"
    /\ \E c, d \in Components(normalized) : c # d /\ c \cap d # {}
    /\ \E a, b \in NodeSet(normalized) :
          a # b /\ <<a, b>> \notin Range(exprEdges)
    /\ Len(exprEdges) >= 4

(***************************************************************************)
(* Vocabulary of the resolver properties: the step resolves the statement  *)
(* Handed, whose right-hand side resolves to Resolved against the          *)
(* environment before the step.                                            *)
(***************************************************************************)
Resolving == Len(stmts') = Len(stmts) + 1

Handed == stmts'[Len(stmts')]

Resolved == resolve(Handed.expr, env)

Fails(err) == rpc' = "failed" /\ error' = err /\ env' = env

(***************************************************************************)
(* C13: when shadowing is not allowed and the target of the assignment is  *)
(* already bound, resolving it fails with Shadowing, also when the         *)
(* resolved right-hand side contains the target, and the environment is    *)
(* unchanged.                                                              *)
(***************************************************************************)
C13_Shadowing ==
    [][(Resolving /\ ~config.shadowing /\ Handed.node \in DOMAIN env)
            => Fails("Shadowing")]_vars

\* the failed assignment is also recursive: its target is bound and
\* occurs in its resolved right-hand side, and recursion is not allowed
C13_Witness ==
    /\ rpc = "failed"
    /\ error = "Shadowing"
    /\ ~config.shadowing /\ ~config.recursion
    /\ stmts[Len(stmts)].node \in DOMAIN env
    /\ stmts[Len(stmts)].node \in NodeSet(resolve(stmts[Len(stmts)].expr, env))

C15_ApparentRecursion ==
    (/\ config = Config(TRUE, FALSE)
     /\ stmts = <<Assign(1, L(2)), Assign(2, L(1))>>)
        => /\ rpc # "failed"
           /\ fresh = <<Assign(1, L(2)), Assign(2, L(2))>>

(***************************************************************************)
(* C16: with shadowing allowed, an assignment to a bound name whose        *)
(* resolved right-hand side does not contain the name succeeds and         *)
(* overwrites the binding; a Leaf of that name resolved later, as a        *)
(* right-hand side or as the trailing expression, yields the right-hand    *)
(* side of the last successful assignment to the name.                     *)
(***************************************************************************)
AssignedNames == {fresh[i].node : i \in 1..Len(fresh)}

LastAssigned(n) == fresh[Max({i \in 1..Len(fresh) : fresh[i].node = n})].expr

Returning == rpc = "stmts" /\ rpc' = "returned"

C16_Rebinding ==
    [][/\ (/\ Resolving
           /\ config.shadowing
           /\ Handed.node \in DOMAIN env
           /\ Handed.node \notin NodeSet(Resolved))
            => /\ rpc' = "stmts"
               /\ error' = "None"
               /\ fresh' = Append(fresh, Assign(Handed.node, Resolved))
               /\ Handed.node \in DOMAIN env'
               /\ env'[Handed.node] = Resolved
       /\ (/\ Resolving
           /\ rpc' = "stmts"
           /\ Handed.expr.t = "Node"
           /\ Handed.expr.n \in AssignedNames)
            => fresh'[Len(fresh')].expr = LastAssigned(Handed.expr.n)
       /\ (Returning /\ ret'.t = "Node" /\ ret'.n \in AssignedNames)
            => value' = LastAssigned(ret'.n)]_vars

\* a name assigned twice with different right-hand sides, then returned
C16_Witness ==
    /\ rpc = "returned"
    /\ config.shadowing
    /\ ret.t = "Node"
    /\ \E i, j \in 1..Len(fresh) :
          /\ i < j
          /\ fresh[i].node = ret.n
          /\ fresh[j].node = ret.n
          /\ fresh[i].expr # fresh[j].expr
          /\ value = fresh[j].expr
          /\ value # fresh[i].expr

(***************************************************************************)
(* C17: resolving an expression replaces every Leaf whose name is bound by *)
(* the stored expression and keeps every other Leaf; a Connected or a      *)
(* Disconnected stays of its kind, with as many members in the same order, *)
(* each resolved; the result is not normalized.                            *)
(***************************************************************************)
RECURSIVE Substituted(_, _, _)
Substituted(e, r, map) ==
    IF e.t = "Node"
    THEN r = IF e.n \in DOMAIN map THEN map[e.n] ELSE e
    ELSE /\ r.t = e.t
         /\ Len(r.es) = Len(e.es)
         /\ \A i \in 1..Len(e.es) : Substituted(e.es[i], r.es[i], map)

C17_Substitution ==
    [][/\ (Resolving /\ rpc' = "stmts")
            => Substituted(Handed.expr, fresh'[Len(fresh')].expr, env)
       /\ Returning => Substituted(ret', value', env)]_vars

\* {X, G1} with G1 bound to [A, B] resolves to {X, [A, B]}
C17_Witness ==
    /\ rpc = "returned"
    /\ ret = C(<<L(5), L(1)>>)
    /\ 1 \in DOMAIN env
    /\ env[1] = D(<<L(3), L(4)>>)
    /\ value = C(<<L(5), D(<<L(3), L(4)>>)>>)
    /\ normalize(value) # value

(***************************************************************************)
(* C18: a successful assignment changes the entry of its target only; the  *)
(* stored expression of every other name stays as it was, and a Leaf of a  *)
(* bound name resolves to the stored expression as it is, the names inside *)
(* it are not looked up again.                                             *)
(***************************************************************************)
C18_BindTime ==
    [][/\ (Resolving /\ rpc' = "stmts")
            => /\ DOMAIN env' = DOMAIN env \cup {Handed.node}
               /\ \A n \in DOMAIN env \ {Handed.node} : env'[n] = env[n]
       /\ (Returning /\ ret'.t = "Node" /\ ret'.n \in DOMAIN env)
            => value' = env[ret'.n]]_vars

\* the returned stored expression mentions a name bound after it was
\* stored
C18_Witness ==
    /\ rpc = "returned"
    /\ ret.t = "Node"
    /\ ret.n \in DOMAIN env
    /\ value = env[ret.n]
    /\ \E i, j \in 1..Len(fresh) :
          /\ i < j
          /\ fresh[i].node = ret.n
          /\ fresh[j].node # ret.n
          /\ fresh[j].node \in NodeSet(value)
          /\ fresh[j].expr # Node(fresh[j].node)

(***************************************************************************)
(* C19: the assignments of a program are resolved in order against one     *)
(* environment.  When assignment k is the first to fail, the result is its *)
(* error, the environment is the one after the assignments 1..k-1 and the  *)
(* trailing expression is not resolved; when none fails, the value is the  *)
(* trailing expression resolved against the environment after the last     *)
(* assignment.                                                             *)
(***************************************************************************)
\* the first k statements of prog resolved from the empty environment, as
\* the loop of Vec<Stmt>::resolve does (resolve.rs:159-169)
RECURSIVE ResolvePrefix(_, _, _)
ResolvePrefix(prog, k, cfg) ==
    IF k = 0
    THEN [result |-> "Ok", map |-> EmptyEnv, fresh |-> <<>>]
    ELSE LET prev == ResolvePrefix(prog, k - 1, cfg)
             resolved == resolve(prog[k].expr, prev.map)
             r == insert(prev.map, cfg, prog[k].node, resolved)
         IN IF prev.result # "Ok"
            THEN prev
            ELSE [result |-> r.result,
                  map |-> r.map,
                  fresh |-> IF r.result = "Ok"
                            THEN Append(prev.fresh, Assign(prog[k].node, resolved))
                            ELSE prev.fresh]

C19_Sequential ==
    LET k == Len(stmts)
        all == ResolvePrefix(stmts, k, config)
        before == ResolvePrefix(stmts, k - 1, config)
    IN /\ rpc = "failed"
            => /\ k >= 1
               /\ before.result = "Ok"
               /\ all.result \in {"Shadowing", "Recursion"}
               /\ error = all.result
               /\ env = before.map
               /\ fresh = before.fresh
               /\ Len(fresh) = k - 1
               /\ ret = None
               /\ value = None
       /\ rpc \in {"stmts", "returned"}
            => /\ all.result = "Ok"
               /\ error = "None"
               /\ env = all.map
               /\ fresh = all.fresh
               /\ Len(fresh) = k
       /\ rpc = "stmts" => ret = None /\ value = None
       /\ rpc = "returned" => value = resolve(ret, all.map)

\* the third assignment fails, the bindings of the first two are kept and
\* its target stays unbound
C19_Witness ==
    /\ rpc = "failed"
    /\ Len(stmts) = 3
    /\ Len(fresh) = 2
    /\ fresh[1].node # fresh[2].node
    /\ DOMAIN env = {fresh[1].node, fresh[2].node}
    /\ stmts[3].node \notin DOMAIN env
    /\ ret = None

(***************************************************************************)
(* C20, as stated: after successful assignments the result of resolving an *)
(* expression holds no Leaf whose name is bound in the environment.        *)
(***************************************************************************)
C20_FullySubstitutedAsStated ==
    rpc = "returned" => NodeSet(value) \cap DOMAIN env = {}

\* no assignment targets a name that occurs in the resolved right-hand
\* side of itself or of an earlier assignment
NoLateBinding ==
    \A i, j \in 1..Len(fresh) :
        i <= j => fresh[j].node \notin NodeSet(fresh[i].expr)

(***************************************************************************)
(* C20: when no successful assignment targets a name that occurs in the    *)
(* resolved right-hand side of itself or of an earlier assignment, the     *)
(* result of resolving an expression holds no Leaf whose name is bound in  *)
(* the environment, and the recorded right-hand side of an assignment      *)
(* holds no Leaf whose name was bound before it.                           *)
(***************************************************************************)
C20_FullySubstituted ==
    NoLateBinding
        => /\ rpc = "returned" => NodeSet(value) \cap DOMAIN env = {}
           /\ \A i, j \in 1..Len(fresh) :
                 j < i => fresh[j].node \notin NodeSet(fresh[i].expr)

\* two assignments, the second written with the name of the first, and a
\* trailing expression written with a bound name
C20_Witness ==
    /\ rpc = "returned"
    /\ NoLateBinding
    /\ Len(fresh) >= 2
    /\ NodeSet(stmts[2].expr) \cap {fresh[1].node} # {}
    /\ NodeSet(ret) \cap DOMAIN env # {}
    /\ value # ret
    /\ NodeSet(value) \cap DOMAIN env = {}

(***************************************************************************)
(* C21: dedup of a Disconnected whose members are Leaves or Connected      *)
(* groups of Leaves keeps exactly one child per distinct maximal node set: *)
(* the node sets of the children kept are the node sets of the members     *)
(* that are no proper subset of another member's, each once; dedup of      *)
(* [N,I,{N,J}] is [I,{N,J}] and dedup of [{A,B},{A,B,C},A,{C,D},{C,D,E}]   *)
(* is [{A,B,C},{C,D,E}].                                                   *)
(***************************************************************************)
MaximalNodeSets(e) ==
    LET sets == {NodeSet(m) : m \in Range(e.es)}
    IN {S \in sets : ~\E T \in sets : S \subseteq T /\ S # T}

C21_Dedup ==
    pc = "deduped"
        => /\ deduped.t = "Disconnected"
           /\ {NodeSet(m) : m \in Range(deduped.es)} = MaximalNodeSets(expr)
           /\ Len(deduped.es) = Cardinality(MaximalNodeSets(expr))
           /\ Range(deduped.es) \subseteq Range(expr.es)
           /\ expr = Disconnected(<<Node(1), Node(2),
                                    Connected(<<Node(1), Node(3)>>)>>)
                => deduped = Disconnected(<<Node(2),
                                           Connected(<<Node(1), Node(3)>>)>>)

C23_WriteOnce ==
    [][~config.shadowing
          => \A n \in DOMAIN env : n \in DOMAIN env' /\ env'[n] = env[n]]_vars

\* a second assignment to the first name failed, a third to another name
\* succeeded, and the first binding is the one of the first assignment
C23_Witness ==
    /\ rpc = "session"
    /\ ~config.shadowing
    /\ Len(stmts) = 3
    /\ Len(fresh) = 2
    /\ stmts[2].node = stmts[1].node
    /\ stmts[2].expr # stmts[1].expr
    /\ stmts[3].node # stmts[1].node
    /\ fresh[2].node = stmts[3].node
    /\ env[stmts[1].node] = fresh[1].expr
    /\ DOMAIN env = {stmts[1].node, stmts[3].node}

(***************************************************************************)
(* C24: resolving a bare expression never fails and leaves the environment *)
(* unchanged; only the resolution of an assignment reports Shadowing or    *)
(* Recursion or changes the environment.                                   *)
(***************************************************************************)
C24_ExprFrame ==
    [][/\ stmts' = stmts
            => /\ env' = env
               /\ fresh' = fresh
               /\ error' = "None"
               /\ Substituted(ret', value', env)
       /\ (env' # env \/ error' \in {"Shadowing", "Recursion"}) => Resolving]_vars

\* an expression resolved to something else than itself, after an
\* assignment that failed
C24_Witness ==
    /\ rpc = "session"
    /\ ret # None
    /\ value # ret
    /\ error = "None"
    /\ DOMAIN env # {}
    /\ Len(fresh) < Len(stmts)
    /\ stmts[Len(stmts)].node \notin DOMAIN env

(***************************************************************************)
(* C25: normalization never invents nodes: nodes(normalize(e)) is a subset *)
(* of nodes(e), and both endpoints of every pair of edges(e) are in        *)
(* nodes(e), so the lookups of the graph export (lib.rs:139-146) find      *)
(* them.                                                                   *)
(***************************************************************************)
C25_NoInvention ==
    Projected
        => /\ Range(normNodes) \subseteq Range(exprNodes)
           /\ exprEdges # PanicEdges
           /\ \A i \in 1..Len(exprEdges) :
                 /\ exprEdges[i][1] \in Range(exprNodes)
                 /\ exprEdges[i][2] \in Range(exprNodes)

\* a normal form that lost a node of the expression and has edges, none
\* of them at the smallest name
C25_Witness ==
    /\ Projected
    /\ Range(normNodes) # Range(exprNodes)
    /\ Len(exprEdges) > 0
    /\ 1 \in Range(exprNodes)
    /\ \A i \in 1..Len(exprEdges) : exprEdges[i][1] # 1

====
